---- MODULE Spec2Model ----
(***************************************************************************)
(* State-machine model of src/script.js: the match catalog, the card       *)
(* renderer (loadMatches), the detail modal (showMatchDetails, closeModal),*)
(* the countdown (startCountdown and its setInterval callback) and the     *)
(* DOMContentLoaded wiring.                                                *)
(*                                                                         *)
(* The page markup (index.html) is not part of the sources, so the         *)
(* document is an input: Init draws which of the elements the script looks *)
(* up by id exist, and whether the four countdown slots are descendants of *)
(* #countdown-timer.  A TypeError raised by a handler (a property access   *)
(* on the null that getElementById returned) is recorded in lastOp.thrown; *)
(* the assignments the handler made before the throw are kept.             *)
(*                                                                         *)
(* The catalog's Persian display strings are written here as ASCII         *)
(* stand-ins with the same equalities (all teams/descriptions distinct,    *)
(* the stream link of records 1, 3 and 4 identical).                       *)
(***************************************************************************)
EXTENDS Integers, Sequences, FiniteSets, TLC

VARIABLES
    dom,            \* ids of the elements present in the document
    nested,         \* TRUE iff the four slots are inside #countdown-timer
    container,      \* children of #matches-container (sequence of cards)
    modalDisplay,   \* effective display of #match-modal: "none" | "block"
    detailsHTML,    \* children of #match-details (sequence of <<tag, text>>)
    loaded,         \* DOMContentLoaded handler has run
    listeners,      \* elements that carry a click listener added by the wiring
    now,            \* wall clock, ms
    timers,         \* one record per setInterval created by startCountdown
    countdownHTML,  \* content of #countdown-timer: "markup" | "started"
    slotText,       \* textContent of each slot element that exists
    lastOp          \* the handler that ran last: [op, arg, thrown]

vars == <<dom, nested, container, modalDisplay, detailsHTML, loaded, listeners,
          now, timers, countdownHTML, slotText, lastOp>>

modalVars == <<modalDisplay, detailsHTML>>
countdownVars == <<timers, countdownHTML, slotText>>

----------------------------------------------------------------------------
(* Bounds *)

\* at most this many of the looked-up elements are absent from the document
MaxMissing == 1
\* at most this many startCountdown calls
MaxTimers == 2

----------------------------------------------------------------------------
(* The document *)

Slots == <<"days", "hours", "minutes", "seconds">>
SlotSet == {Slots[k] : k \in 1..Len(Slots)}

Elements == {"matches-container", "match-details", "match-modal",
             "close-modal", "countdown-timer"} \cup SlotSet

\* text of a slot in the static markup, before any tick wrote it
InitialText == -1

----------------------------------------------------------------------------
(* Match catalog *)

matchesData == <<
    [id |-> 1, teams |-> "Team A vs Team B", date |-> "1404/01/10", time |-> "21:00",
     description |-> "opening match", liveStreamLink |-> "https://www.youtube.com/embed/dQw4w9WgXcQ"],
    [id |-> 2, teams |-> "Team C vs Team D", date |-> "1404/01/11", time |-> "22:30",
     description |-> "preliminary round", liveStreamLink |-> "https://www.aparat.com/v/xxxxx"],
    [id |-> 3, teams |-> "Team E vs Team F", date |-> "1404/01/12", time |-> "23:00",
     description |-> "title contenders", liveStreamLink |-> "https://www.youtube.com/embed/dQw4w9WgXcQ"],
    [id |-> 4, teams |-> "Team G vs Team H", date |-> "1404/01/13", time |-> "21:30",
     description |-> "quarter final", liveStreamLink |-> "https://www.youtube.com/embed/dQw4w9WgXcQ"] >>

CatalogIds == {matchesData[i].id : i \in 1..Len(matchesData)}

\* ids a caller may pass to showMatchDetails: the catalog's and an unknown one
IdInputs == CatalogIds \cup {5}

----------------------------------------------------------------------------
(* Card renderer: loadMatches *)

\* "no listener" marker for a card that was not built by loadMatches
NoListener == 0

\* the card built for one match: className, the template's children, and the
\* id captured by the click listener of its .btn-match-details link
Card(match) ==
    [className |-> "match-card",
     children  |-> << <<"h3", match.teams>>, <<"p", match.date>>,
                      <<"p", match.time>>, <<"a", "details">> >>,
     onclick   |-> match.id]

\* a card of the static markup that loadMatches did not build
StaleCard ==
    [className |-> "match-card",
     children  |-> << <<"h3", "placeholder">> >>,
     onclick   |-> NoListener]

RenderedCardsNoClear(old) ==
    old \o [i \in 1..Len(matchesData) |-> Card(matchesData[i])]

\* container.innerHTML = "" and then one appendChild per record, in order
RenderedCards(old) ==
    [i \in 1..Len(matchesData) |-> Card(matchesData[i])]

loadMatches ==
    /\ IF "matches-container" \in dom
          THEN container' = RenderedCards(container)
          ELSE UNCHANGED container
    /\ lastOp' = [op |-> "loadMatches", arg |-> 0, thrown |-> FALSE]
    /\ UNCHANGED <<dom, nested, modalDisplay, detailsHTML, loaded, listeners,
                   now, timers, countdownHTML, slotText>>

----------------------------------------------------------------------------
(* Detail modal: showMatchDetails, closeModal *)

RECURSIVE FindFrom(_, _)
FindFrom(i, matchId) ==
    IF i > Len(matchesData) THEN 0
    ELSE IF matchesData[i].id = matchId THEN i
    ELSE FindFrom(i + 1, matchId)

FindOrLast(matchId) ==
    IF FindFrom(1, matchId) = 0 THEN Len(matchesData) ELSE FindFrom(1, matchId)

\* matchesData.find(m => m.id === matchId): index of the first record with
\* that id, 0 for undefined
Find(matchId) == FindFrom(1, matchId)

DetailsHTMLNoStream(match) ==
    << <<"h2", match.teams>>, <<"p", match.date>>, <<"p", match.time>>,
       <<"p", match.description>>, <<"h3", "live">> >>

\* the template assigned to #match-details.innerHTML
DetailsHTML(match) ==
    << <<"h2", match.teams>>, <<"p", match.date>>, <<"p", match.time>>,
       <<"p", match.description>>, <<"h3", "live">>,
       <<"iframe", match.liveStreamLink>> >>

ShowResultNoDisplay(matchId, display, html) ==
    LET i == Find(matchId) IN
    IF i = 0 \/ "match-details" \notin dom
      THEN [display |-> display, html |-> html, thrown |-> i # 0]
    ELSE [display |-> display, html |-> DetailsHTML(matchesData[i]),
          thrown |-> "match-modal" \notin dom]

\* outcome of showMatchDetails(matchId) on the modal's state
ShowResult(matchId, display, html) ==
    LET i == Find(matchId) IN
    IF i = 0
      THEN [display |-> display, html |-> html, thrown |-> FALSE]
    ELSE IF "match-details" \notin dom
      THEN [display |-> display, html |-> html, thrown |-> TRUE]
    ELSE IF "match-modal" \notin dom
      THEN [display |-> display, html |-> DetailsHTML(matchesData[i]), thrown |-> TRUE]
    ELSE [display |-> "block", html |-> DetailsHTML(matchesData[i]), thrown |-> FALSE]

CloseResultKeepContent(display, html) ==
    IF "match-modal" \notin dom
      THEN [display |-> display, html |-> html, thrown |-> TRUE]
    ELSE [display |-> "none", html |-> html, thrown |-> "match-details" \notin dom]

\* outcome of closeModal() on the modal's state
CloseResult(display, html) ==
    IF "match-modal" \notin dom
      THEN [display |-> display, html |-> html, thrown |-> TRUE]
    ELSE IF "match-details" \notin dom
      THEN [display |-> "none", html |-> html, thrown |-> TRUE]
    ELSE [display |-> "none", html |-> <<>>, thrown |-> FALSE]

showMatchDetails(matchId) ==
    LET r == ShowResult(matchId, modalDisplay, detailsHTML) IN
    /\ modalDisplay' = r.display
    /\ detailsHTML' = r.html
    /\ lastOp' = [op |-> "showMatchDetails", arg |-> matchId, thrown |-> r.thrown]
    /\ UNCHANGED <<dom, nested, container, loaded, listeners, now, timers,
                   countdownHTML, slotText>>

closeModal ==
    LET r == CloseResult(modalDisplay, detailsHTML) IN
    /\ modalDisplay' = r.display
    /\ detailsHTML' = r.html
    /\ lastOp' = [op |-> "closeModal", arg |-> 0, thrown |-> r.thrown]
    /\ UNCHANGED <<dom, nested, container, loaded, listeners, now, timers,
                   countdownHTML, slotText>>

\* click on the .btn-match-details link of the i-th card of the container
ClickDetails(i) ==
    /\ i \in 1..Len(container)
    /\ LET id == container[i].onclick
           r  == IF id = NoListener
                   THEN [display |-> modalDisplay, html |-> detailsHTML, thrown |-> FALSE]
                   ELSE ShowResult(id, modalDisplay, detailsHTML)
       IN /\ modalDisplay' = r.display
          /\ detailsHTML' = r.html
          /\ lastOp' = [op |-> "clickDetails", arg |-> id, thrown |-> r.thrown]
    /\ UNCHANGED <<dom, nested, container, loaded, listeners, now, timers,
                   countdownHTML, slotText>>

----------------------------------------------------------------------------
(* Bootstrap wiring: the DOMContentLoaded handler and the clicks it serves *)

DOMContentLoaded ==
    /\ ~loaded
    /\ loaded' = TRUE
    /\ listeners' = {"close-modal", "match-modal"} \cap dom
    /\ lastOp' = [op |-> "DOMContentLoaded", arg |-> 0, thrown |-> FALSE]
    /\ UNCHANGED <<dom, nested, container, modalDisplay, detailsHTML, now,
                   timers, countdownHTML, slotText>>

AnyTargetCloses(target) == TRUE

\* the overlay's listener: if (event.target === modal) closeModal()
BackdropCloses(target) == target = "match-modal"

\* elements a pointer activation can hit that the wiring cares about
ClickTargets == {"close-modal", "match-modal", "match-details"}

\* name under which a click on `target` is recorded in lastOp
ClickOp(target) ==
    CASE target = "close-modal" -> "clickClose"
      [] target = "match-modal" -> "clickBackdrop"
      [] OTHER -> "clickContent"

\* A click on `target`.  The close control's own listener runs closeModal; a
\* click on the overlay or on anything inside it reaches the overlay's
\* listener with event.target = target.
Click(target) ==
    /\ target \in ClickTargets \cap dom
    /\ LET closes == \/ target = "close-modal" /\ "close-modal" \in listeners
                     \/ /\ target \in {"match-modal", "match-details"}
                        /\ "match-modal" \in listeners
                        /\ BackdropCloses(target)
           r == IF closes
                  THEN CloseResult(modalDisplay, detailsHTML)
                  ELSE [display |-> modalDisplay, html |-> detailsHTML, thrown |-> FALSE]
       IN /\ modalDisplay' = r.display
          /\ detailsHTML' = r.html
          /\ lastOp' = [op |-> ClickOp(target), arg |-> 0, thrown |-> r.thrown]
    /\ UNCHANGED <<dom, nested, container, loaded, listeners, now, timers,
                   countdownHTML, slotText>>

----------------------------------------------------------------------------
(* Countdown: startCountdown and the setInterval callback *)

\* period passed to setInterval, ms
Interval == 1000

MsPerSecond == 1000
MsPerMinute == 1000 * 60
MsPerHour == 1000 * 60 * 60
MsPerDay == 1000 * 60 * 60 * 24

\* instants new Date(dateString).getTime() yields for the valid date strings
\* passed to startCountdown: 90 s, and 2 d 3 h 4 min 5.678 s, after instant 1000
Targets == {91000, 183846678}

\* instants at which the clock is read; consecutive ones are at least one
\* Interval apart, so a timer that was started or has fired at one instant is
\* due again at every later one
Instants == {0, 1000, 91000, 92500, 183848000}

ReplaceTimers(ts, t) ==
    Append([i \in DOMAIN ts |-> [ts[i] EXCEPT !.active = FALSE]], t)

\* setInterval: one more interval, the earlier ones untouched
NewTimers(ts, t) == Append(ts, t)

startCountdown(target) ==
    /\ IF "countdown-timer" \in dom
          THEN /\ Len(timers) < MaxTimers
               /\ timers' = NewTimers(timers, [endDate |-> target, active |-> TRUE,
                                               elapsed |-> FALSE])
          ELSE UNCHANGED timers
    /\ lastOp' = [op |-> "startCountdown", arg |-> target, thrown |-> FALSE]
    /\ UNCHANGED <<dom, nested, container, modalDisplay, detailsHTML, loaded,
                   listeners, now, countdownHTML, slotText>>

ExpiredAtZero(distance) == distance <= 0

\* if (distance < 0)
Expired(distance) == distance < 0

DaysOf(distance) == distance \div MsPerDay

HoursTotal(distance) == distance \div MsPerHour

HoursOf(distance) == (distance % MsPerDay) \div MsPerHour

MinutesOf(distance) == (distance % MsPerHour) \div MsPerMinute

SecondsOf(distance) == (distance % MsPerMinute) \div MsPerSecond

\* the value the callback assigns to the textContent of slot s
SlotValue(s, distance) ==
    CASE s = "days" -> DaysOf(distance)
      [] s = "hours" -> HoursOf(distance)
      [] s = "minutes" -> MinutesOf(distance)
      [] s = "seconds" -> SecondsOf(distance)

\* the slots the callback writes before it meets a missing one (the four
\* assignments run in the order days, hours, minutes, seconds)
WrittenSlots ==
    {Slots[k] : k \in {n \in 1..Len(Slots) : \A j \in 1..n : Slots[j] \in dom}}

\* One run of the setInterval callback of the i-th timer.  `elapsed` says that
\* a full Interval has passed since the timer was set or last fired.
Tick(i) ==
    /\ i \in 1..Len(timers)
    /\ timers[i].active
    /\ timers[i].elapsed
    /\ LET distance == timers[i].endDate - now IN
       IF Expired(distance)
         THEN /\ timers' = [timers EXCEPT ![i].active = FALSE, ![i].elapsed = FALSE]
              /\ countdownHTML' = "started"
              /\ dom' = IF nested THEN dom \ SlotSet ELSE dom
              /\ slotText' = IF nested THEN << >> ELSE slotText
              /\ lastOp' = [op |-> "tick", arg |-> i, thrown |-> FALSE]
         ELSE /\ timers' = [timers EXCEPT ![i].elapsed = FALSE]
              /\ slotText' = [s \in DOMAIN slotText |->
                                IF s \in WrittenSlots THEN SlotValue(s, distance)
                                                      ELSE slotText[s]]
              /\ lastOp' = [op |-> "tick", arg |-> i,
                            thrown |-> ~(SlotSet \subseteq dom)]
              /\ UNCHANGED <<dom, countdownHTML>>
    /\ UNCHANGED <<nested, container, modalDisplay, detailsHTML, loaded,
                   listeners, now>>

\* wall-clock time passes: at least one Interval, so every interval that is
\* still set has its callback queued again
AdvanceClock ==
    /\ \E t \in Instants : t >= now + Interval /\ now' = t
    /\ timers' = [i \in DOMAIN timers |->
                    [timers[i] EXCEPT !.elapsed = timers[i].active]]
    /\ UNCHANGED <<dom, nested, container, modalDisplay, detailsHTML, loaded,
                   listeners, countdownHTML, slotText, lastOp>>

----------------------------------------------------------------------------
(* Specifications *)

\* the documents the page may be served with
Documents == {Elements \ m : m \in {x \in SUBSET Elements : Cardinality(x) <= MaxMissing}}

\* the page as served, before any script ran, for any of the documents
Init ==
    /\ dom \in Documents
    /\ nested \in (IF "countdown-timer" \in dom THEN BOOLEAN ELSE {FALSE})
    /\ container \in (IF "matches-container" \in dom THEN {<< >>, <<StaleCard>>}
                                                     ELSE {<< >>})
    /\ modalDisplay = "none"
    /\ detailsHTML = << >>
    /\ loaded = FALSE
    /\ listeners = {}
    /\ now = 0
    /\ timers = << >>
    /\ countdownHTML = "markup"
    /\ slotText = [s \in dom \cap SlotSet |-> InitialText]
    /\ lastOp = [op |-> "init", arg |-> 0, thrown |-> FALSE]

\* the page served with every element the script looks up
InitFullPage == Init /\ dom = Elements

NextModal ==
    \/ loadMatches
    \/ \E id \in IdInputs : showMatchDetails(id)
    \/ closeModal
    \/ \E i \in 1..Len(matchesData) + 1 : ClickDetails(i)
    \/ DOMContentLoaded
    \/ \E target \in ClickTargets : Click(target)

NextCountdown ==
    \/ \E target \in Targets : startCountdown(target)
    \/ \E i \in 1..MaxTimers : Tick(i)
    \/ AdvanceClock

Next == NextModal \/ NextCountdown

\* every handler interleaved, on the full page
Spec == InitFullPage /\ [][Next]_vars

\* every handler interleaved, on any of the documents
SpecAnyPage == Init /\ [][Next]_vars

\* renderer, modal and wiring alone, on any of the documents
SpecModal == Init /\ [][NextModal]_vars

\* countdown alone, on any of the documents
SpecCountdown == Init /\ [][NextCountdown]_vars

----------------------------------------------------------------------------
(* Helpers of the properties *)

\* the catalog record with the given id
RecordOf(id) == CHOOSE m \in {matchesData[i] : i \in 1..Len(matchesData)} : m.id = id

\* html is a detail view of record m: heading, date, time, description and a
\* frame whose source is the record's stream link
ShowsRecord(html, m) ==
    /\ Len(html) = 6
    /\ html[1] = <<"h2", m.teams>>
    /\ html[2] = <<"p", m.date>>
    /\ html[3] = <<"p", m.time>>
    /\ html[4] = <<"p", m.description>>
    /\ html[6] = <<"iframe", m.liveStreamLink>>

\* both elements of the modal exist
ModalPresent == {"match-modal", "match-details"} \subseteq dom

\* the container holds one card per catalog record, in catalog order
CardsMatchCatalog ==
    /\ Len(container) = Len(matchesData)
    /\ \A i \in 1..Len(matchesData) :
          /\ container[i].children[1] = <<"h3", matchesData[i].teams>>
          /\ container[i].children[2] = <<"p", matchesData[i].date>>
          /\ container[i].children[3] = <<"p", matchesData[i].time>>
          /\ container[i].onclick = matchesData[i].id

\* this step is a run of the callback of timer i
TickStep(i) == lastOp'.op = "tick" /\ lastOp'.arg = i /\ now' = now

\* this step is a startCountdown call
StartStep == lastOp'.op = "startCountdown" /\ now' = now

----------------------------------------------------------------------------
(* Properties *)

\* C1: with the modal's elements present, showMatchDetails(id) for an id of
\* the catalog, from any state, ends with the modal visible and the content
\* region holding exactly that record's teams, date, time, description and
\* stream URL, and raises nothing.
C1_ShowReplacesContent ==
    [][\A id \in CatalogIds :
         (lastOp'.op = "showMatchDetails" /\ lastOp'.arg = id /\ ModalPresent)
           => /\ modalDisplay' = "block"
              /\ ShowsRecord(detailsHTML', RecordOf(id))
              /\ ~lastOp'.thrown]_vars

C1_Witness ==
    /\ lastOp.op = "showMatchDetails" /\ lastOp.arg = 3
    /\ modalDisplay = "block"
    /\ ShowsRecord(detailsHTML, RecordOf(3))

\* C2: with the modal's elements present, closeModal from any state ends with
\* the modal hidden and the content region empty; from the closed state it
\* changes nothing.
C2_CloseHidesAndClears ==
    [][(lastOp'.op = "closeModal" /\ ModalPresent)
         => /\ modalDisplay' = "none"
            /\ detailsHTML' = << >>
            /\ ~lastOp'.thrown
            /\ (modalDisplay = "none" /\ detailsHTML = << >>
                  => UNCHANGED modalVars)]_vars

C2_Witness ==
    /\ lastOp.op = "closeModal" /\ ~lastOp.thrown
    /\ ModalPresent
    /\ modalDisplay = "none" /\ detailsHTML = << >>
    /\ loaded /\ Len(container) = Len(matchesData)

\* C3: showMatchDetails(id) for an id that is not in the catalog changes
\* neither the modal's visibility nor the content region and raises nothing,
\* on any document.
C3_UnknownIdNoOp ==
    [][(lastOp'.op = "showMatchDetails" /\ lastOp'.arg \notin CatalogIds)
         => UNCHANGED modalVars /\ ~lastOp'.thrown]_vars

C3_Witness ==
    /\ lastOp.op = "showMatchDetails" /\ lastOp.arg \notin CatalogIds
    /\ modalDisplay = "block"
    /\ ShowsRecord(detailsHTML, RecordOf(2))

\* C4: with the container present, every loadMatches call leaves exactly one
\* card per catalog record, the i-th showing the i-th record's teams, date
\* and time, whatever the container held before; and once the container is
\* in that state no later step changes it.
C4_RenderExactlyCatalog ==
    [][((lastOp'.op = "loadMatches" /\ "matches-container" \in dom)
           \/ CardsMatchCatalog)
         => CardsMatchCatalog']_vars

C4_Witness ==
    /\ lastOp.op = "loadMatches"
    /\ "matches-container" \in dom
    /\ Len(container) = 4
    /\ container[4].children[1] = <<"h3", "Team G vs Team H">>

\* C5: a callback run that observes remaining < 0 clears its interval and
\* writes the "started" message; a cleared timer stays cleared and its
\* callback never runs again; a timer is cleared only by its own callback
\* observing remaining < 0; and with a single startCountdown call the display
\* never changes after the timer stopped.
C5_StoppedIsTerminal ==
    [][/\ \A i \in 1..Len(timers) :
            /\ (TickStep(i) /\ timers[i].endDate - now < 0)
                 => ~timers'[i].active /\ countdownHTML' = "started"
            /\ ~timers[i].active
                 => /\ Len(timers') >= i
                    /\ ~timers'[i].active
                    /\ ~TickStep(i)
            /\ (timers[i].active /\ Len(timers') >= i /\ ~timers'[i].active)
                 => TickStep(i) /\ timers[i].endDate - now < 0
       /\ (Len(timers) = 1 /\ Len(timers') = 1 /\ ~timers[1].active)
            => UNCHANGED <<countdownHTML, slotText>>]_vars

C5_Witness ==
    /\ Len(timers) = 1
    /\ ~timers[1].active
    /\ countdownHTML = "started"
    /\ lastOp.op = "tick"
    /\ now > timers[1].endDate + Interval

\* C6: a callback run that observes remaining >= 0 with the four slots present
\* writes days, hours, minutes and seconds with
\* days*86400 + hours*3600 + minutes*60 + seconds = floor(remaining / 1000),
\* 0 <= hours < 24, 0 <= minutes < 60, 0 <= seconds < 60 and days >= 0.
C6_Decomposition ==
    [][\A i \in 1..Len(timers) :
         (TickStep(i) /\ timers[i].endDate - now >= 0 /\ SlotSet \subseteq dom)
           => LET remaining == timers[i].endDate - now
                  days == slotText'["days"]
                  hours == slotText'["hours"]
                  minutes == slotText'["minutes"]
                  seconds == slotText'["seconds"]
              IN /\ days * 86400 + hours * 3600 + minutes * 60 + seconds
                      = remaining \div 1000
                 /\ days >= 0
                 /\ hours \in 0..23
                 /\ minutes \in 0..59
                 /\ seconds \in 0..59]_vars

C6_Witness ==
    /\ lastOp.op = "tick" /\ ~lastOp.thrown
    /\ DOMAIN slotText = SlotSet
    /\ slotText["days"] = 2 /\ slotText["hours"] = 3
    /\ slotText["minutes"] = 4 /\ slotText["seconds"] = 5

\* C7: an operation whose target element is missing completes without
\* raising and changes nothing: loadMatches without the container,
\* showMatchDetails (known id) or closeModal without the overlay or the
\* content region, startCountdown without the countdown container, a callback
\* run (remaining >= 0) without all four slots.
C7_MissingTargetSilentSkip ==
    [][(/\ now' = now
        /\ \/ lastOp'.op = "loadMatches" /\ "matches-container" \notin dom
           \/ /\ lastOp'.op = "showMatchDetails" /\ lastOp'.arg \in CatalogIds
              /\ ~ModalPresent
           \/ lastOp'.op = "closeModal" /\ ~ModalPresent
           \/ lastOp'.op = "startCountdown" /\ "countdown-timer" \notin dom
           \/ /\ lastOp'.op = "tick" /\ ~(SlotSet \subseteq dom)
              /\ lastOp'.arg \in 1..Len(timers)
              /\ timers[lastOp'.arg].endDate - now >= 0)
         => /\ ~lastOp'.thrown
            /\ UNCHANGED <<container, modalDisplay, detailsHTML, countdownHTML,
                           slotText>>]_vars

\* C8: once the wiring has run and with the modal's elements present, a click
\* on the close control or a click whose target is the overlay itself hides
\* the modal and clears the content; a click whose target is inside the
\* overlay's content changes neither.
C8_DismissalTriggers ==
    [][/\ (loaded /\ ModalPresent /\ lastOp'.op \in {"clickClose", "clickBackdrop"})
            => modalDisplay' = "none" /\ detailsHTML' = << >>
       /\ lastOp'.op = "clickContent" => UNCHANGED modalVars]_vars

C8_Witness ==
    /\ lastOp.op = "clickContent"
    /\ loaded /\ "match-modal" \in listeners
    /\ modalDisplay = "block"
    /\ ShowsRecord(detailsHTML, RecordOf(1))

\* C9: with the countdown container present every startCountdown call adds
\* one running timer and leaves the earlier ones as they are; a timer is
\* cleared only by its own callback observing its own remaining < 0, and a
\* callback run changes no timer but its own.
C9_NoDeduplication ==
    [][/\ (StartStep /\ "countdown-timer" \in dom)
            => /\ Len(timers') = Len(timers) + 1
               /\ \A i \in 1..Len(timers) : timers'[i] = timers[i]
               /\ timers'[Len(timers')].active
               /\ timers'[Len(timers')].endDate = lastOp'.arg
       /\ \A i \in 1..Len(timers) :
            /\ (timers[i].active /\ Len(timers') >= i /\ ~timers'[i].active)
                 => TickStep(i) /\ timers[i].endDate - now < 0
            /\ TickStep(i)
                 => \A j \in 1..Len(timers) : j # i => timers'[j] = timers[j]]_vars

\* two timers, the first stopped after writing the message, the second (later
\* target) still set and its callback has just run
C9_Witness ==
    /\ Len(timers) = 2
    /\ ~timers[1].active /\ timers[2].active
    /\ timers[1].endDate < timers[2].endDate
    /\ countdownHTML = "started"
    /\ lastOp.op = "tick" /\ lastOp.arg = 2

\* C10: starting from a hidden modal with an empty content region, under any
\* interleaving of the handlers the modal is visible iff the content region
\* is non-empty, a visible modal shows the detail of exactly one catalog
\* record, and the content only ever becomes the detail of the id passed to
\* the showMatchDetails call that has just run.
C10_VisibleIffContent ==
    /\ [](ModalPresent =>
            /\ (modalDisplay = "block") <=> (detailsHTML # << >>)
            /\ modalDisplay = "block" =>
                 Cardinality({i \in 1..Len(matchesData) :
                                ShowsRecord(detailsHTML, matchesData[i])}) = 1)
    /\ [][(ModalPresent /\ detailsHTML' # << >> /\ detailsHTML' # detailsHTML)
            => /\ lastOp'.op \in {"showMatchDetails", "clickDetails"}
               /\ lastOp'.arg \in CatalogIds
               /\ ShowsRecord(detailsHTML', RecordOf(lastOp'.arg))]_vars

\* the modal shows a record while a countdown is running and the cards are
\* rendered
C10_Witness ==
    /\ modalDisplay = "block"
    /\ ShowsRecord(detailsHTML, RecordOf(4))
    /\ lastOp.op = "tick"
    /\ loaded
    /\ Len(container) = Len(matchesData)

====
